---- MODULE Spec2Model ----
(***************************************************************************)
(* Poserspace display programs: the network ingestion engine shared by     *)
(* src/display/sdl/sidescroll/main.c++ (text display) and                  *)
(* src/display/sdl/main.c++ (coordinate display).                          *)
(*                                                                         *)
(* A byte is a one-character string, a std::string is a sequence of bytes. *)
(* The vector `connections` is a sequence whose element i+1 is the C++     *)
(* element i.  Operations whose C++ behaviour is undefined (a read before  *)
(* the start of the buffer, a call through a null shared_ptr, a read past  *)
(* the end of the field vector) return the SET of outcomes they can have.  *)
(***************************************************************************)
EXTENDS Integers, Sequences, FiniteSets, TLC

\* ------------------------------------------------------------------------
\* Program constants
\* ------------------------------------------------------------------------
EVENT_COUNT == 8
FRAMEDELAY == 25000
BufSize == 4096
FontCount == 32

Sidescroll == "sidescroll/main.c++"
Coord == "main.c++"
Programs == {Sidescroll, Coord}

AWAITING_ACTION == "ACTION"
HEADER == "HEADER"
DATA == "DATA"
StateRank(s) == CASE s = AWAITING_ACTION -> 0 [] s = HEADER -> 1 [] s = DATA -> 2

NoInterpreter == "null"
TextInterpreter == "TextInterpreter"
GeoInterpreter == "GeoInterpreter"

LF == "\n"
CR == "\r"
TAB == "\t"
COLON == ":"

StrContentType == <<"C","o","n","t","e","n","t","-","t","y","p","e">>
StrText == <<"x","-","p","o","s","e","r","s","p","a","c","e","/","t","e","x","t">>
StrGeo == <<"x","-","p","o","s","e","r","s","p","a","c","e","/","g","e","o">>

\* ------------------------------------------------------------------------
\* Bounds of the model
\* ------------------------------------------------------------------------
\* connections the peers open in one run
MaxAccepts == 2
\* the largest number of live display items a text record is added to
MaxItems == 201
\* the clock stops at MaxClock microseconds
MaxClock == 30000
\* the same for the runs of the event loop alone
MaxPaceClock == 110000

\* ------------------------------------------------------------------------
\* String helpers (std::find, boost::algorithm::split, trim_left_copy, atof)
\* ------------------------------------------------------------------------
\* std::find(s.begin(), s.end(), ch): 1-based position of the first ch,
\* Len(s)+1 for s.end()
RECURSIVE FindFrom(_, _, _)
FindFrom(s, ch, i) ==
  IF i > Len(s) THEN Len(s) + 1
  ELSE IF s[i] = ch THEN i
  ELSE FindFrom(s, ch, i + 1)

Find(s, ch) == FindFrom(s, ch, 1)

\* std::isspace in the "C" locale
IsSpace(ch) == ch \in {" ", "\t", "\n", "\r", "\f"}

\* boost::algorithm::trim_left_copy
RECURSIVE TrimLeft(_)
TrimLeft(s) ==
  IF s # <<>> /\ IsSpace(Head(s)) THEN TrimLeft(Tail(s)) ELSE s

\* boost::algorithm::split(values, line, c == '\t'): token compression off,
\* so n tabs give n+1 fields and the empty line gives one empty field
RECURSIVE Split(_)
Split(line) ==
  LET p == Find(line, TAB) IN
  IF p > Len(line) THEN <<line>>
  ELSE <<SubSeq(line, 1, p - 1)>> \o Split(SubSeq(line, p + 1, Len(line)))

Digits == <<"0","1","2","3","4","5","6","7","8","9">>
IsDigit(ch) == \E d \in 1..10 : Digits[d] = ch
DigitVal(ch) == (CHOOSE d \in 1..10 : Digits[d] = ch) - 1

\* number of leading digits of s
RECURSIVE DigitRun(_)
DigitRun(s) ==
  IF s # <<>> /\ IsDigit(Head(s)) THEN 1 + DigitRun(Tail(s)) ELSE 0

\* value of a digit string
RECURSIVE DecVal(_)
DecVal(s) ==
  IF s = <<>> THEN 0 ELSE 10 * DecVal(SubSeq(s, 1, Len(s) - 1)) + DigitVal(s[Len(s)])

\* atof(s.c_str()) in hundredths: leading white space, an optional sign,
\* digits, an optional fraction; 0 when no number starts the text.  Fraction
\* digits after the second are dropped (the model's doubles have 2 decimals).
Atof(str) ==
  LET s0 == TrimLeft(str)
      neg == s0 # <<>> /\ Head(s0) = "-"
      s1 == IF s0 # <<>> /\ Head(s0) \in {"-", "+"} THEN Tail(s0) ELSE s0
      ni == DigitRun(s1)
      ip == SubSeq(s1, 1, ni)
      r1 == SubSeq(s1, ni + 1, Len(s1))
      hasDot == r1 # <<>> /\ Head(r1) = "."
      r2 == IF hasDot THEN Tail(r1) ELSE <<>>
      nf == DigitRun(r2)
      f1 == IF nf >= 1 THEN DigitVal(r2[1]) ELSE 0
      f2 == IF nf >= 2 THEN DigitVal(r2[2]) ELSE 0
      mag == IF ni + nf = 0 THEN 0 ELSE 100 * DecVal(ip) + 10 * f1 + f2
  IN IF neg THEN 0 - mag ELSE mag

\* ------------------------------------------------------------------------
\* Interpreters and the per-connection parser.
\* The parser works on a record w:
\*   program      which of the two programs runs
\*   buf, state, interpreter     the ConnectionState fields
\*   lines        sidescroll: std::vector<Line> lines (content and size h)
\*   target       coordinate display: <<geo.targetLat, geo.targetLon>>
\*   fatal        "none", or what ended the process
\*   tr           the calls of handleLine so far: the line, the state it was
\*                handled in and the interpreter bound after it
\*   ub           the undefined operations executed so far: "buf underrun"
\*                (handleInput reads before buf), "null interpreter" (call
\*                through the null shared_ptr), "data[1]" and "values[1]"
\*                (handleData and handleLine read past a one-field record),
\*                "fonts index" (fonts[l.h] past the table)
\* ------------------------------------------------------------------------
\* values returned by rand(): 0 takes every "rare" branch of maxsize and the
\* smallest size, 1679 = lcm(28, 24, 20, 16, 12, 8, 4) - 1 takes every other
\* branch and the largest size of each modulus
RandVals == {0, 1679}
\* what a read past the end of the field vector can yield through atof
GarbageVals == {0, 777}

\* maxsize(lineCount); r is the value of the rand() call it makes, if any
maxsize(lineCount, r) ==
  IF lineCount < 20 THEN 28
  ELSE IF lineCount < 25 THEN (IF r % 10 # 0 THEN 24 ELSE 28)
  ELSE IF lineCount < 30 THEN (IF r % 15 # 0 THEN 20 ELSE 28)
  ELSE IF lineCount < 50 THEN (IF r % 20 # 0 THEN 16 ELSE 24)
  ELSE IF lineCount < 80 THEN (IF r % 40 # 0 THEN 12 ELSE 24)
  ELSE IF lineCount < 110 THEN (IF r % 50 # 0 THEN 8 ELSE 24)
  ELSE IF lineCount < 200 THEN (IF r % 100 # 0 THEN 4 ELSE 24)
  ELSE (IF r % lineCount # 0 THEN 1 ELSE 24)

\* a size computed with an offset of 5
LineHeightWide(lineCount, r1, r2) == (r2 % maxsize(lineCount, r1)) + 5

\* l.h = rand() % maxsize(lines.size()) + 4
LineHeight(lineCount, r1, r2) == (r2 % maxsize(lineCount, r1)) + 4

\* sidescroll TextInterpreter::handleData
SidescrollTextHandleData(w, values) ==
  IF values[1] = <<>> THEN {w}
  ELSE { [w EXCEPT !.lines = Append(@, [content |-> values[1],
                                         h |-> LineHeight(Len(w.lines), r1, r2)]),
                   !.ub = IF LineHeight(Len(w.lines), r1, r2) >= FontCount
                          THEN @ \cup {"fonts index"} ELSE @]
         : r1 \in RandVals, r2 \in RandVals }

\* a handleData that prints the second field only when the record has one
GeoHandleDataChecked(w, values) == {w}

\* coordinate display GeoInterpreter::handleData: prints data[0] and data[1]
GeoHandleData(w, values) ==
  IF Len(values) >= 2 THEN {w}
  ELSE { [w EXCEPT !.ub = @ \cup {"data[1]"}],
         [w EXCEPT !.ub = @ \cup {"data[1]"}, !.fatal = "SIGSEGV"] }

\* coordinate display TextInterpreter::handleData: empty body
CoordTextHandleData(w, values) == {w}

\* interpreter->handleData(values)
CallInterpreter(w, values) ==
  IF w.interpreter = NoInterpreter
  THEN { [w EXCEPT !.ub = @ \cup {"null interpreter"}],
         [w EXCEPT !.ub = @ \cup {"null interpreter"}, !.fatal = "SIGSEGV"] }
  ELSE IF w.interpreter = GeoInterpreter THEN GeoHandleData(w, values)
  ELSE IF w.program = Sidescroll THEN SidescrollTextHandleData(w, values)
  ELSE CoordTextHandleData(w, values)

\* the two assignments with the fields exchanged
SetTargetSwapped(w, values) ==
  IF Len(values) >= 2
  THEN { [w EXCEPT !.target = <<Atof(values[2]), Atof(values[1])>>] }
  ELSE { [w EXCEPT !.ub = @ \cup {"values[1]"},
                   !.target = <<g, Atof(values[1])>>] : g \in GarbageVals }
       \cup { [w EXCEPT !.ub = @ \cup {"values[1]"}, !.fatal = "SIGSEGV"] }

\* geo.targetLat = atof(values[0]); geo.targetLon = atof(values[1]);
SetTarget(w, values) ==
  IF Len(values) >= 2
  THEN { [w EXCEPT !.target = <<Atof(values[1]), Atof(values[2])>>] }
  ELSE { [w EXCEPT !.ub = @ \cup {"values[1]"},
                   !.target = <<Atof(values[1]), g>>] : g \in GarbageVals }
       \cup { [w EXCEPT !.ub = @ \cup {"values[1]"},
                        !.target = <<Atof(values[1]), w.target[2]>>,
                        !.fatal = "SIGSEGV"] }

\* handleHeader with a reset: a Content-type header of an unknown value
\* unbinds the interpreter
handleHeaderReset(program, interpreter, header, value) ==
  IF header = StrContentType
  THEN IF value = StrText THEN TextInterpreter
       ELSE IF program = Coord /\ value = StrGeo THEN GeoInterpreter
       ELSE NoInterpreter
  ELSE interpreter

\* ConnectionState::handleHeader: the interpreter bound afterwards
handleHeader(program, interpreter, header, value) ==
  IF header = StrContentType
  THEN IF value = StrText THEN TextInterpreter
       ELSE IF program = Coord /\ value = StrGeo THEN GeoInterpreter
       ELSE interpreter
  ELSE interpreter

\* case ACTION that waits for a non-empty action line
ActionCaseSkipEmpty(w, line) ==
  IF line = <<>> THEN {w} ELSE { [w EXCEPT !.state = HEADER] }

\* handleLine, case ACTION
ActionCase(w, line) == { [w EXCEPT !.state = HEADER] }

\* case HEADER that ignores a line without a colon instead of throwing
HeaderCaseLenient(w, line) ==
  IF line = <<>> THEN { [w EXCEPT !.state = DATA] }
  ELSE LET colon == Find(line, COLON) IN
       IF colon > Len(line) THEN {w}
       ELSE LET header == SubSeq(line, 1, colon - 1)
                headerValue == TrimLeft(SubSeq(line, colon + 1, Len(line)))
            IN { [w EXCEPT !.interpreter =
                     handleHeader(w.program, w.interpreter, header, headerValue)] }

\* handleLine, case HEADER
HeaderCase(w, line) ==
  IF line = <<>> THEN { [w EXCEPT !.state = DATA] }
  ELSE LET colon == Find(line, COLON) IN
       IF colon > Len(line) THEN { [w EXCEPT !.fatal = "invalid header"] }
       ELSE LET header == SubSeq(line, 1, colon - 1)
                headerValue == TrimLeft(SubSeq(line, colon + 1, Len(line)))
            IN { [w EXCEPT !.interpreter =
                     handleHeader(w.program, w.interpreter, header, headerValue)] }

\* case DATA that still looks for headers: a data line with a colon is
\* passed to handleHeader before it is split
DataCaseRebind(w, line) ==
  LET colon == Find(line, COLON)
      v == IF colon > Len(line) THEN w
           ELSE [w EXCEPT !.interpreter =
                   handleHeader(w.program, w.interpreter, SubSeq(line, 1, colon - 1),
                                TrimLeft(SubSeq(line, colon + 1, Len(line))))]
      values == Split(line)
      called == CallInterpreter(v, values)
  IN IF w.program = Sidescroll THEN called
     ELSE UNION { IF c.fatal # "none" THEN {c} ELSE SetTarget(c, values)
                  : c \in called }

\* handleLine, case DATA
DataCase(w, line) ==
  LET values == Split(line)
      called == CallInterpreter(w, values)
  IN IF w.program = Sidescroll THEN called
     ELSE UNION { IF c.fatal # "none" THEN {c} ELSE SetTarget(c, values)
                  : c \in called }

\* ConnectionState::handleLine: the outcomes of one call
handleLine(w, line) ==
  LET out == CASE w.state = AWAITING_ACTION -> ActionCase(w, line)
               [] w.state = HEADER -> HeaderCase(w, line)
               [] w.state = DATA -> DataCase(w, line)
  IN { [o EXCEPT !.tr = Append(@, [line |-> line, st |-> w.state,
                                   interpreter |-> o.interpreter])]
       : o \in out }

\* one round of the while(1) loop of handleInput on a buffer holding an LF
\*   nl = std::find(buf, '\n'); e = nl; if(*(e - 1) == '\r') --e;
\*   handleLine(fd, std::string(buf.begin(), e));
\*   buf = std::string(++nl, buf.end());
\* With nl at the first byte, *(e - 1) reads the byte before the buffer:
\* it is a CR or it is not; if it is, e is before buf.begin() and the
\* std::string built from (begin, e) ends the process.
ExtractLine(w) ==
  LET nl == Find(w.buf, LF)
      rest == SubSeq(w.buf, nl + 1, Len(w.buf))
      consume(o) == IF o.fatal # "none" THEN o ELSE [o EXCEPT !.buf = rest]
  IN IF nl = 1
     THEN LET u == [w EXCEPT !.ub = @ \cup {"buf underrun"}] IN
          { consume(o) : o \in handleLine(u, <<>>) }
          \cup { [u EXCEPT !.fatal = "terminate"] }
     ELSE LET e == IF w.buf[nl - 1] = CR THEN nl - 1 ELSE nl IN
          { consume(o) : o \in handleLine(w, SubSeq(w.buf, 1, e - 1)) }

\* an `if` in place of the while(1): one line is extracted per call
ExtractLinesOnce(w) ==
  IF w.fatal # "none" \/ Find(w.buf, LF) > Len(w.buf) THEN {w}
  ELSE ExtractLine(w)

\* the while(1) loop of handleInput
RECURSIVE ExtractLines(_)
ExtractLines(w) ==
  IF w.fatal # "none" \/ Find(w.buf, LF) > Len(w.buf) THEN {w}
  ELSE UNION { ExtractLines(o) : o \in ExtractLine(w) }

\* handleInput that scans the new input alone and drops what was buffered
handleInputNoBuffer(w, input) == ExtractLines([w EXCEPT !.buf = input])

\* ConnectionState::handleInput: the outcomes of one call
handleInput(w, input) == ExtractLines([w EXCEPT !.buf = @ \o input])

\* ConnectionState(fd): the constructor
ConnectionState(fd) ==
  [fd |-> fd, buf |-> <<>>, state |-> AWAITING_ACTION, interpreter |-> NoInterpreter]

\* ------------------------------------------------------------------------
\* Environment: handles, clock, peers
\* ------------------------------------------------------------------------
\* handle of the listening socket: 3 with stdin, stdout and stderr open,
\* 0 when the program is started with stdin closed
ListenFds == {0, 3}
\* handles accept(2) can return
ConnFds == {5, 6}
\* microseconds that pass between two readings of the clock: none, or more
\* than a tick period
Delays == {0, FRAMEDELAY + 1000}
\* the same for the runs of the event loop alone: also half a tick period
PaceDelays == Delays \cup {FRAMEDELAY \div 2}

CRLF == <<CR, LF>>
HdrText == StrContentType \o <<":", " ">> \o StrText
HdrGeo == StrContentType \o <<":", " ">> \o StrGeo

\* what a peer writes, one element per segment that arrives
\*   ScrText  A, Content-type: x-poserspace/text, blank | hi
\*   ScrGeo   A, Content-type: x-poserspace/geo, blank, 1.5<TAB>-2
\*   ScrBad   A, bad                      (a header line without a colon)
\*   ScrNone  empty action line, blank | x       (no Content-type header)
\*   ScrHdr   A, X: y                     (stops inside the header block)
ScrText == << <<"A">> \o CRLF \o HdrText \o CRLF \o CRLF, <<"h", "i">> \o CRLF >>
ScrGeo == << <<"A">> \o CRLF \o HdrGeo \o CRLF \o CRLF \o <<"1", ".", "5", TAB, "-", "2">> \o CRLF >>
ScrBad == << <<"A", LF, "b", "a", "d", LF>> >>
ScrNone == << CRLF \o CRLF, <<"x">> \o CRLF >>
ScrHdr == << <<"A">> \o CRLF \o <<"X", ":", " ", "y">> \o CRLF >>
Scripts == {ScrText, ScrGeo, ScrBad, ScrNone, ScrHdr}

\* byte streams for the parser alone
\*   PsLF     A, Content-type: x-poserspace/text, blank, hi, <TAB>   (LF only)
\*   PsData   A, Content-type: x-poserspace/geo, blank, 1.5<TAB>-2,
\*            Content-type: x-poserspace/text              (as a data line)
\*   PsTwo    A, Content-type:x-poserspace/text, Content-type: foo, blank, ab
\*   PsCase   A, content-type: x-poserspace/text, blank, x
\*   PsEmpty  LF-only empty action line, X:y, blank, partial line q
\*   PsBad    A, bad, X:y
\*   PsOne    A, Content-type: x-poserspace/geo, blank, 7 (a single field),
\*            the empty line
\*   PsGeo    A, Content-type: x-poserspace/geo, blank, 10.0<TAB>20.0,
\*            3<TAB>4.25<TAB>z
PsLF == <<"A", LF>> \o HdrText \o <<LF, LF, "h", "i", LF, TAB, LF>>
PsData == <<"A">> \o CRLF \o HdrGeo \o CRLF \o CRLF \o <<"1", ".", "5", TAB, "-", "2">>
            \o CRLF \o HdrText \o CRLF
PsTwo == <<"A">> \o CRLF \o StrContentType \o <<":">> \o StrText \o CRLF
           \o StrContentType \o <<":", " ", "f", "o", "o">> \o CRLF \o CRLF \o <<"a", "b">> \o CRLF
PsCase == <<"A">> \o CRLF \o <<"c">> \o Tail(HdrText) \o CRLF \o CRLF \o <<"x">> \o CRLF
PsEmpty == <<LF, "X", ":", "y", LF, LF, "q">>
PsBad == <<"A", LF, "b", "a", "d", LF, "X", ":", "y", LF>>
PsOne == <<"A">> \o CRLF \o HdrGeo \o CRLF \o CRLF \o <<"7">> \o CRLF \o CRLF
PsGeo == <<"A">> \o CRLF \o HdrGeo \o CRLF \o CRLF
           \o <<"1", "0", ".", "0", TAB, "2", "0", ".", "0">> \o CRLF
           \o <<"3", TAB, "4", ".", "2", "5", TAB, "z">> \o CRLF
ParseStreams == {PsLF, PsData, PsTwo, PsCase, PsEmpty, PsBad, PsOne, PsGeo}
\* the handle of the connection the parser is exercised on
ParseFd == CHOOSE fd \in ConnFds : \A g \in ConnFds : fd <= g

FreeSocket == [open |-> FALSE, pending |-> <<>>, peer |-> "up", script |-> <<>>]

Min(a, b) == IF a < b THEN a ELSE b
Max(a, b) == IF a > b THEN a ELSE b

\* all orders in which the handles of S can be reported
RECURSIVE Perms(_)
Perms(S) ==
  IF S = {} THEN {<<>>}
  ELSE UNION { { <<x>> \o p : p \in Perms(S \ {x}) } : x \in S }

VARIABLES
  program,      \* which main.c++ runs
  serverSocket, \* main: const int serverSocket
  horizon,      \* the time of day at which the observation of the run ends
  delays,       \* the periods that can pass between two readings of the clock
  connections,  \* std::vector<ConnectionState> connections
  interest,     \* handles registered with the epoll instance `poll`
  sock,         \* kernel side of each connection handle
  backlog,      \* connections waiting in the listen queue
  accepts,      \* connections the peers have opened so far
  lines,        \* sidescroll: std::vector<Line> lines
  target,       \* coordinate display: geo.targetLat, geo.targetLon
  fatal,        \* "none", or what ended the process
  running,      \* main: bool running
  pc,           \* position of main: "dispatch", "wait", "exited"
  events,       \* events[i..num-1] of the current iteration
  t,            \* main: const auto t
  nextFrameAt,  \* main: uint64_t nextFrameAt
  clock,        \* the time of day, microseconds
  frames,       \* calls of renderFrame so far
  tr,           \* per handle: the calls of handleLine of its connection
  received,     \* per handle: the bytes fed to handleInput of its connection
  chunks,       \* per handle: the non-empty inputs fed to handleInput
  returned,     \* the handles acceptConnection has returned, in order
  ub            \* undefined operations executed so far

vars == <<program, serverSocket, horizon, delays, connections, interest, sock, backlog, accepts,
          lines, target, fatal, running, pc, events, t, nextFrameAt, clock,
          frames, tr, received, chunks, returned, ub>>

loopVars == <<running, pc, events, t, nextFrameAt, clock, frames>>
peerVars == <<backlog, accepts>>

\* connections[fd]
Conn(fd) == connections[fd + 1]

\* the parser record of connections[fd]
World(fd) ==
  [program |-> program, buf |-> Conn(fd).buf, state |-> Conn(fd).state,
   interpreter |-> Conn(fd).interpreter, lines |-> lines, target |-> target,
   fatal |-> fatal, tr |-> tr[fd], ub |-> ub]

\* the parser record of a connection that has received nothing
FreshWorld(prog) ==
  [program |-> prog, buf |-> <<>>, state |-> AWAITING_ACTION,
   interpreter |-> NoInterpreter, lines |-> <<>>, target |-> <<0, 0>>,
   fatal |-> "none", tr |-> <<>>, ub |-> {}]

\* main up to the loop: geo.target*, prepareSocket, prepareEpoll, now()
Init ==
  /\ program \in Programs
  /\ serverSocket \in ListenFds
  /\ horizon = MaxClock
  /\ delays = Delays
  /\ connections = <<>>
  /\ interest = {serverSocket}
  /\ sock = [fd \in ConnFds |-> FreeSocket]
  /\ backlog = 0
  /\ accepts = 0
  /\ lines = <<>>
  /\ target = IF program = Coord THEN <<-5226, 1051>> ELSE <<0, 0>>
  /\ fatal = "none"
  /\ running = TRUE
  /\ pc = "dispatch"
  /\ events = <<>>
  /\ t = 0
  /\ clock = 0
  /\ nextFrameAt = FRAMEDELAY
  /\ frames = 0
  /\ tr = [fd \in ConnFds |-> <<>>]
  /\ received = [fd \in ConnFds |-> <<>>]
  /\ chunks = [fd \in ConnFds |-> 0]
  /\ returned = <<>>
  /\ ub = {}

\* ------------------------------------------------------------------------
\* Peers.  What the peers do while the program handles a batch of events is
\* seen by the program at its next epoll_wait or read, so their steps are
\* taken while the program is in epoll_wait.
\* ------------------------------------------------------------------------
PeerConnect ==
  /\ pc = "wait"
  /\ accepts < MaxAccepts
  /\ backlog < 2
  /\ backlog' = backlog + 1
  /\ accepts' = accepts + 1
  /\ UNCHANGED <<program, serverSocket, horizon, delays, connections, interest, sock, lines,
                 target, fatal, loopVars, tr, received, chunks, returned, ub>>

\* the next segment of the peer's script arrives
PeerSend(fd) ==
  /\ pc = "wait"
  /\ sock[fd].open /\ sock[fd].peer = "up" /\ sock[fd].script # <<>>
  /\ sock' = [sock EXCEPT ![fd].pending = @ \o Head(sock[fd].script),
                          ![fd].script = Tail(@)]
  /\ UNCHANGED <<program, serverSocket, horizon, delays, connections, interest, peerVars, lines,
                 target, fatal, loopVars, tr, received, chunks, returned, ub>>

\* the peer closes after its last segment: reads return 0 once drained
PeerClose(fd) ==
  /\ pc = "wait"
  /\ sock[fd].open /\ sock[fd].peer = "up" /\ sock[fd].script = <<>>
  /\ sock' = [sock EXCEPT ![fd].peer = "closed"]
  /\ UNCHANGED <<program, serverSocket, horizon, delays, connections, interest, peerVars, lines,
                 target, fatal, loopVars, tr, received, chunks, returned, ub>>

\* the peer resets the connection: reads return -1
PeerReset(fd) ==
  /\ pc = "wait"
  /\ sock[fd].open /\ sock[fd].peer = "up" /\ sock[fd].script = <<>>
  /\ sock' = [sock EXCEPT ![fd].peer = "reset", ![fd].pending = <<>>]
  /\ UNCHANGED <<program, serverSocket, horizon, delays, connections, interest, peerVars, lines,
                 target, fatal, loopVars, tr, received, chunks, returned, ub>>

\* ------------------------------------------------------------------------
\* The program
\* ------------------------------------------------------------------------
\* what read(fd, buffer, sizeof(buffer)) returns
ReadLen(fd) ==
  IF sock[fd].peer = "reset" THEN -1
  ELSE Min(Len(sock[fd].pending), BufSize)

\* the handles epoll_wait reports
Ready ==
  { fd \in ConnFds \cap interest :
      sock[fd].open /\ (sock[fd].pending # <<>> \/ sock[fd].peer # "up") }
  \cup { fd \in {serverSocket} \cap interest : backlog > 0 }

\* acceptConnection without the while loop that fills the registry up to con
acceptConnectionNoFill(con, script) ==
  IF con < 0
  THEN /\ fatal' = "accept(2) failed"
       /\ UNCHANGED <<connections, interest, sock, backlog, tr, received, chunks, returned>>
  ELSE /\ backlog' = backlog - 1
       /\ sock' = [sock EXCEPT ![con] = [open |-> TRUE, pending |-> <<>>,
                                         peer |-> "up", script |-> script]]
       /\ interest' = interest \cup {con}
       /\ connections' = connections \o <<ConnectionState(con)>>
       /\ tr' = [tr EXCEPT ![con] = <<>>]
       /\ received' = [received EXCEPT ![con] = <<>>]
       /\ chunks' = [chunks EXCEPT ![con] = 0]
       /\ returned' = Append(returned, con)
       /\ UNCHANGED fatal

\* acceptConnection; con is the handle accept(2) returns, -1 for a failure,
\* script is what the peer of the new connection is going to write
acceptConnection(con, script) ==
  IF con < 0
  THEN /\ fatal' = "accept(2) failed"
       /\ UNCHANGED <<connections, interest, sock, backlog, tr, received, chunks, returned>>
  ELSE /\ backlog' = backlog - 1
       /\ sock' = [sock EXCEPT ![con] = [open |-> TRUE, pending |-> <<>>,
                                         peer |-> "up", script |-> script]]
       /\ interest' = interest \cup {con}
       /\ connections' =
            (IF Len(connections) < con
             THEN connections \o [i \in 1..(con - Len(connections)) |-> ConnectionState(-1)]
             ELSE connections) \o <<ConnectionState(con)>>
       /\ tr' = [tr EXCEPT ![con] = <<>>]
       /\ received' = [received EXCEPT ![con] = <<>>]
       /\ chunks' = [chunks EXCEPT ![con] = 0]
       /\ returned' = Append(returned, con)
       /\ UNCHANGED fatal

\* the branch len < 0 of acceptInput without line 195: the slot is kept
CloseConnectionKeepSlot(fd) ==
  IF 0 \in interest
  THEN /\ interest' = interest \ {0, fd}
       /\ sock' = [sock EXCEPT ![fd] = FreeSocket]
       /\ UNCHANGED <<connections, fatal>>
  ELSE /\ fatal' = "epoll_ctl(2) failed"
       /\ UNCHANGED <<connections, interest, sock>>

\* the branch len < 0 of acceptInput
\*   epoll_ctl(poll, EPOLL_CTL_DEL, 0, 0) fails unless handle 0 is registered
CloseConnection(fd) ==
  IF 0 \in interest
  THEN /\ interest' = interest \ {0, fd}
       /\ sock' = [sock EXCEPT ![fd] = FreeSocket]
       /\ connections' = [connections EXCEPT ![fd + 1] = ConnectionState(-1)]
       /\ UNCHANGED fatal
  ELSE /\ fatal' = "epoll_ctl(2) failed"
       /\ UNCHANGED <<connections, interest, sock>>

\* acceptInput(fd, poll); len is what read(2) returned
acceptInput(fd, len) ==
  IF len < 0
  THEN /\ CloseConnection(fd)
       /\ UNCHANGED <<lines, target, tr, received, chunks, returned, ub>>
  ELSE LET input == SubSeq(sock[fd].pending, 1, len) IN
       /\ \E o \in handleInput(World(fd), input) :
            /\ connections' = [connections EXCEPT ![fd + 1].buf = o.buf,
                                                  ![fd + 1].state = o.state,
                                                  ![fd + 1].interpreter = o.interpreter]
            /\ lines' = o.lines
            /\ target' = o.target
            /\ fatal' = o.fatal
            /\ tr' = [tr EXCEPT ![fd] = o.tr]
            /\ ub' = o.ub
       /\ received' = [received EXCEPT ![fd] = @ \o input]
       /\ chunks' = [chunks EXCEPT ![fd] = IF len > 0 THEN @ + 1 ELSE @]
       /\ sock' = [sock EXCEPT ![fd].pending = SubSeq(@, len + 1, Len(@))]
       /\ UNCHANGED <<interest, returned>>

\* the top of a loop iteration whose tick leaves nextFrameAt as it was
LoopTopNoReschedule ==
  /\ pc = "dispatch" /\ events = <<>> /\ running
  /\ \E d \in delays, quit \in BOOLEAN :
       /\ clock + d <= horizon
       /\ quit => program = Sidescroll
       /\ clock' = clock + d
       /\ t' = clock'
       /\ running' = ~quit
       /\ IF nextFrameAt < t'
          THEN /\ frames' = frames + 1
               /\ UNCHANGED nextFrameAt
          ELSE UNCHANGED <<frames, nextFrameAt>>
  /\ pc' = "wait"
  /\ UNCHANGED <<program, serverSocket, horizon, delays, connections, interest, sock, peerVars,
                 lines, target, fatal, events, tr, received, chunks, returned, ub>>

\* main: the top of one loop iteration up to the call of epoll_wait
\*   d is the time since the clock was last read, quit an SDL_QUIT event
\* renderFrame draws the items of `lines` and moves each to the left by at
\* most 20 pixels; it drops an item that has left the 1920 pixels of the
\* screen, which takes 96 calls or more, so within the observed time it
\* leaves content and size of every item, all the model keeps of them.
LoopTop ==
  /\ pc = "dispatch" /\ events = <<>> /\ running
  /\ \E d \in delays, quit \in BOOLEAN :
       /\ clock + d <= horizon
       /\ quit => program = Sidescroll
       /\ clock' = clock + d
       /\ t' = clock'
       /\ running' = ~quit
       /\ IF nextFrameAt < t'
          THEN /\ frames' = frames + 1
               /\ nextFrameAt' = t' + FRAMEDELAY
          ELSE UNCHANGED <<frames, nextFrameAt>>
  /\ pc' = "wait"
  /\ UNCHANGED <<program, serverSocket, horizon, delays, connections, interest, sock, peerVars,
                 lines, target, fatal, events, tr, received, chunks, returned, ub>>

\* the timeout argument of epoll_wait, milliseconds: (nextFrameAt - t) / 1000.
\* The operands are uint64_t (times stay far below 2^64 here): with
\* nextFrameAt < t the difference wraps to 2^64 - (t - nextFrameAt), and the
\* conversion of its quotient to int can give any of WrappedTimeouts.
WrappedTimeouts == {-1, 0, 2147483647}

\* a wait without a timeout
TimeoutsBlocking == {-1}

Timeouts ==
  IF nextFrameAt >= t THEN {(nextFrameAt - t) \div 1000} ELSE WrappedTimeouts

\* a loop whose tick check follows the wait: the clock is read and the tick
\* callback is run when epoll_wait has returned the ready handles
WaitReadyThenTick ==
  /\ pc = "wait" /\ Ready # {}
  /\ \E evs \in Perms(Ready) : events' = SubSeq(evs, 1, Min(Len(evs), EVENT_COUNT))
  /\ \E d \in delays :
       /\ clock + d <= horizon
       /\ clock' = clock + d
       /\ IF nextFrameAt < clock'
          THEN /\ frames' = frames + 1
               /\ nextFrameAt' = clock' + FRAMEDELAY
          ELSE UNCHANGED <<frames, nextFrameAt>>
  /\ pc' = "dispatch"
  /\ UNCHANGED <<program, serverSocket, horizon, delays, connections, interest, sock, peerVars,
                 lines, target, fatal, running, t, tr, received, chunks, returned, ub>>

\* epoll_wait returns the ready handles
WaitReady ==
  /\ pc = "wait" /\ Ready # {}
  /\ \E evs \in Perms(Ready) : events' = SubSeq(evs, 1, Min(Len(evs), EVENT_COUNT))
  /\ pc' = "dispatch"
  /\ UNCHANGED <<program, serverSocket, horizon, delays, connections, interest, sock, peerVars,
                 lines, target, fatal, running, t, nextFrameAt, clock, frames,
                 tr, received, chunks, returned, ub>>

\* epoll_wait returns 0 after its timeout
WaitTimeout ==
  /\ pc = "wait" /\ Ready = {}
  /\ \E timeout \in Timeouts :
       /\ timeout >= 0 /\ timeout <= horizon
       /\ Max(clock, t + 1000 * timeout) <= horizon
       /\ clock' = Max(clock, t + 1000 * timeout)
  /\ events' = <<>>
  /\ pc' = "dispatch"
  /\ UNCHANGED <<program, serverSocket, horizon, delays, connections, interest, sock, peerVars,
                 lines, target, fatal, running, t, nextFrameAt, frames,
                 tr, received, chunks, returned, ub>>

\* epoll_wait returns -1 (a signal): throw "epoll_wait(2) failed"
WaitFail ==
  /\ pc = "wait"
  /\ fatal' = "epoll_wait(2) failed"
  /\ pc' = "exited"
  /\ UNCHANGED <<program, serverSocket, horizon, delays, connections, interest, sock, peerVars,
                 lines, target, running, events, t, nextFrameAt, clock, frames,
                 tr, received, chunks, returned, ub>>

\* main: one round of the for loop over the reported events
Dispatch ==
  /\ pc = "dispatch" /\ events # <<>>
  /\ LET fd == Head(events) IN
       IF fd = serverSocket
       THEN /\ \E con \in {-1} \cup {h \in ConnFds : ~sock[h].open}, script \in Scripts :
                 /\ con < 0 => script = ScrHdr
                 /\ acceptConnection(con, script)
            /\ UNCHANGED <<lines, target, ub, accepts>>
       ELSE /\ acceptInput(fd, ReadLen(fd))
            /\ UNCHANGED peerVars
  /\ events' = Tail(events)
  /\ pc' = IF fatal' = "none" THEN "dispatch" ELSE "exited"
  /\ UNCHANGED <<program, serverSocket, horizon, delays, running, t, nextFrameAt, clock, frames>>

\* main: while(running) ends the loop
LoopExit ==
  /\ pc = "dispatch" /\ events = <<>> /\ ~running
  /\ pc' = "exited"
  /\ UNCHANGED <<program, serverSocket, horizon, delays, connections, interest, sock, peerVars,
                 lines, target, fatal, running, events, t, nextFrameAt, clock,
                 frames, tr, received, chunks, returned, ub>>

Next ==
  \/ PeerConnect
  \/ \E fd \in ConnFds : PeerSend(fd)
  \/ \E fd \in ConnFds : PeerClose(fd)
  \/ \E fd \in ConnFds : PeerReset(fd)
  \/ LoopTop
  \/ WaitReady
  \/ WaitTimeout
  \/ WaitFail
  \/ Dispatch
  \/ LoopExit

Spec == Init /\ [][Next]_vars

\* ------------------------------------------------------------------------
\* The parser alone: one accepted connection whose peer has written a whole
\* stream; each read returns some first part of what is still unread.
\* ------------------------------------------------------------------------
InitParse ==
  /\ program \in Programs
  /\ serverSocket = 3
  /\ horizon = MaxClock
  /\ delays = Delays
  /\ connections = [i \in 1..(ParseFd + 1) |->
                      IF i = ParseFd + 1 THEN ConnectionState(ParseFd)
                      ELSE ConnectionState(-1)]
  /\ interest = {serverSocket, ParseFd}
  /\ \E stream \in ParseStreams :
       sock = [fd \in ConnFds |->
                 IF fd = ParseFd
                 THEN [open |-> TRUE, pending |-> stream, peer |-> "up", script |-> <<>>]
                 ELSE FreeSocket]
  /\ backlog = 0
  /\ accepts = 1
  /\ lines = <<>>
  /\ target = IF program = Coord THEN <<-5226, 1051>> ELSE <<0, 0>>
  /\ fatal = "none"
  /\ running = TRUE
  /\ pc = "dispatch"
  /\ events = <<>>
  /\ t = 0
  /\ clock = 0
  /\ nextFrameAt = FRAMEDELAY
  /\ frames = 0
  /\ tr = [fd \in ConnFds |-> <<>>]
  /\ received = [fd \in ConnFds |-> <<>>]
  /\ chunks = [fd \in ConnFds |-> 0]
  /\ returned = <<ParseFd>>
  /\ ub = {}

\* acceptInput on a read of len bytes
Feed ==
  /\ fatal = "none"
  /\ \E len \in 1..Min(Len(sock[ParseFd].pending), BufSize) : acceptInput(ParseFd, len)
  /\ UNCHANGED <<program, serverSocket, horizon, delays, peerVars, loopVars>>

NextParse == Feed

SpecParse == InitParse /\ [][NextParse]_vars

\* ------------------------------------------------------------------------
\* The event loop alone: one accepted connection and no further peers.  The
\* connection is idle for ever, or its peer has written a header block and
\* closed, which makes the handle readable in every iteration.  The program
\* takes its steps (weak fairness) and the clock keeps advancing (strong
\* fairness of the loop tops that read a later time).
\* ------------------------------------------------------------------------
InitPace ==
  /\ program \in Programs
  /\ serverSocket = 3
  /\ horizon = MaxPaceClock
  /\ delays = PaceDelays
  /\ connections = [i \in 1..(ParseFd + 1) |->
                      IF i = ParseFd + 1 THEN ConnectionState(ParseFd)
                      ELSE ConnectionState(-1)]
  /\ interest = {serverSocket, ParseFd}
  /\ \E peer \in {"up", "closed"} :
       sock = [fd \in ConnFds |->
                 IF fd = ParseFd
                 THEN [open |-> TRUE,
                       pending |-> IF peer = "closed" THEN Head(ScrHdr) ELSE <<>>,
                       peer |-> peer, script |-> <<>>]
                 ELSE FreeSocket]
  /\ backlog = 0
  /\ accepts = 1
  /\ lines = <<>>
  /\ target = IF program = Coord THEN <<-5226, 1051>> ELSE <<0, 0>>
  /\ fatal = "none"
  /\ running = TRUE
  /\ pc = "dispatch"
  /\ events = <<>>
  /\ t = 0
  /\ clock = 0
  /\ nextFrameAt = FRAMEDELAY
  /\ frames = 0
  /\ tr = [fd \in ConnFds |-> <<>>]
  /\ received = [fd \in ConnFds |-> <<>>]
  /\ chunks = [fd \in ConnFds |-> 0]
  /\ returned = <<ParseFd>>
  /\ ub = {}

NextPace ==
  \/ LoopTop
  \/ WaitReady
  \/ WaitTimeout
  \/ WaitFail
  \/ Dispatch
  \/ LoopExit

SpecPace ==
  /\ InitPace /\ [][NextPace]_vars
  /\ WF_vars(LoopTop) /\ WF_vars(WaitReady) /\ WF_vars(WaitTimeout)
  /\ WF_vars(Dispatch) /\ WF_vars(LoopExit)
  /\ SF_vars(LoopTop /\ clock' > clock)

\* ------------------------------------------------------------------------
\* The text interpreter alone: the text display with n live display items
\* and one connection that is bound to Text and has reached DATA; its peer
\* has written four records.
\* ------------------------------------------------------------------------
\* item counts on both sides of every threshold of maxsize
ItemCounts == {0, 19, 20, 24, 25, 29, 30, 49, 50, 79, 80, 109, 110, 199, 200, MaxItems}
\* a display item that is already on the screen
OldItem == [content |-> <<"o">>, h |-> 4]
\* the bytes that bound the connection
TextPrologue == <<"A">> \o CRLF \o HdrText \o CRLF \o CRLF
\* the records hi, <TAB>x (empty first field), the empty line, yo<TAB>z
TextRecords == <<"h", "i">> \o CRLF \o <<TAB, "x">> \o CRLF \o CRLF
                 \o <<"y", "o", TAB, "z">> \o CRLF

InitText ==
  /\ program = Sidescroll
  /\ serverSocket = 3
  /\ horizon = MaxClock
  /\ delays = Delays
  /\ connections = [i \in 1..(ParseFd + 1) |->
                      IF i = ParseFd + 1
                      THEN [ConnectionState(ParseFd) EXCEPT !.state = DATA,
                                                            !.interpreter = TextInterpreter]
                      ELSE ConnectionState(-1)]
  /\ interest = {serverSocket, ParseFd}
  /\ sock = [fd \in ConnFds |->
               IF fd = ParseFd
               THEN [open |-> TRUE, pending |-> TextRecords, peer |-> "up", script |-> <<>>]
               ELSE FreeSocket]
  /\ backlog = 0
  /\ accepts = 1
  /\ \E n \in ItemCounts : lines = [i \in 1..n |-> OldItem]
  /\ target = <<0, 0>>
  /\ fatal = "none"
  /\ running = TRUE
  /\ pc = "dispatch"
  /\ events = <<>>
  /\ t = 0
  /\ clock = 0
  /\ nextFrameAt = FRAMEDELAY
  /\ frames = 0
  /\ tr = [fd \in ConnFds |->
             IF fd = ParseFd
             THEN << [line |-> <<"A">>, st |-> AWAITING_ACTION, interpreter |-> NoInterpreter],
                     [line |-> HdrText, st |-> HEADER, interpreter |-> TextInterpreter],
                     [line |-> <<>>, st |-> HEADER, interpreter |-> TextInterpreter] >>
             ELSE <<>>]
  /\ received = [fd \in ConnFds |-> IF fd = ParseFd THEN TextPrologue ELSE <<>>]
  /\ chunks = [fd \in ConnFds |-> IF fd = ParseFd THEN 1 ELSE 0]
  /\ returned = <<ParseFd>>
  /\ ub = {}

SpecText == InitText /\ [][NextParse]_vars

\* ------------------------------------------------------------------------
\* Properties
\* ------------------------------------------------------------------------
Open == { fd \in ConnFds : sock[fd].open }

\* the step of Dispatch that serves connection handle fd
Serves(fd) == pc = "dispatch" /\ events # <<>> /\ Head(events) = fd /\ fd # serverSocket

\* name and value of a header line, as the protocol defines them
HeaderName(line) == SubSeq(line, 1, Find(line, COLON) - 1)
HeaderValue(line) == TrimLeft(SubSeq(line, Find(line, COLON) + 1, Len(line)))
HasColon(line) == Find(line, COLON) <= Len(line)

\* C1: cutting a byte stream into chunks and feeding them one by one delivers
\* the same lines to handleLine, in the same parser states, and leaves the
\* same remainder in the buffer as feeding the bytes in one handleInput call:
\* what the chunked feeding has produced is an outcome of the single call.
C1_ChunkingIndependent ==
  \A fd \in Open :
    \E o \in handleInput(FreshWorld(program), received[fd]) :
      /\ o.tr = tr[fd]
      /\ o.buf = Conn(fd).buf
      /\ o.state = Conn(fd).state
      /\ o.interpreter = Conn(fd).interpreter

\* three or more chunks were fed, lines were delivered and a cut fell inside
\* a line that is still buffered
C1_Witness ==
  \E fd \in Open :
    /\ chunks[fd] >= 3
    /\ Len(tr[fd]) >= 3
    /\ Conn(fd).buf # <<>>
    /\ fatal = "none"

\* line contents tried on every reachable connection state
LineContents == { <<>>, <<"h", "i">>, <<"X", ":", "y">>, <<"a", TAB, "b">> }

\* what a call of handleInput delivers and leaves behind
Delivered(outcomes) ==
  { [tr |-> o.tr, buf |-> o.buf, state |-> o.state, fatal |-> o.fatal] : o \in outcomes }

\* C2: for every line content, also the empty one, and wherever the line
\* starts, handleInput delivers the same line for CR LF and for LF alone.
C2_SameLineForCRLFAndLF ==
  \A fd \in Open : \A c \in LineContents :
    fatal = "none" =>
      Delivered(handleInput(World(fd), c \o CRLF))
        = Delivered(handleInput(World(fd), c \o <<LF>>))

\* C3: the parser state only moves ACTION -> HEADER -> DATA: the first line,
\* whatever its content, is handled in ACTION and no later one is; a line is
\* handled in DATA only after an empty line was handled in HEADER; and the
\* state of the connection is never behind the state its last line was
\* handled in.
C3_StateOnlyAdvances ==
  \A fd \in ConnFds :
    LET h == tr[fd] IN
    /\ \A i \in 1..Len(h) :
         /\ (i = 1) <=> (h[i].st = AWAITING_ACTION)
         /\ i > 1 => StateRank(h[i].st) >= StateRank(h[i - 1].st)
         /\ h[i].st = DATA =>
              \E j \in 1..(i - 1) : h[j].st = HEADER /\ h[j].line = <<>>
    /\ (fd \in Open /\ h # <<>>) =>
         /\ StateRank(Conn(fd).state) >= StateRank(h[Len(h)].st)
         /\ Conn(fd).state # AWAITING_ACTION
         /\ Conn(fd).state = DATA =>
              \E j \in 1..Len(h) : h[j].st = HEADER /\ h[j].line = <<>>
    /\ (fd \in Open /\ h = <<>>) => Conn(fd).state = AWAITING_ACTION

\* a connection whose empty first line moved it on and that handled a data line
C3_Witness ==
  \E fd \in Open :
    /\ Len(tr[fd]) >= 3
    /\ tr[fd][1].line = <<>>
    /\ tr[fd][3].st = DATA
    /\ Conn(fd).state = DATA

\* C4: once a connection handles lines in DATA its interpreter binding never
\* changes, also for data lines that look like a Content-type header; the
\* connection holds the binding its last line left.
C4_BindingFixedInData ==
  \A fd \in ConnFds :
    LET h == tr[fd] IN
    /\ \A i \in 2..Len(h) :
         h[i].st = DATA => h[i].interpreter = h[i - 1].interpreter
    /\ (fd \in Open /\ h # <<>>) => Conn(fd).interpreter = h[Len(h)].interpreter
    /\ (fd \in Open /\ h = <<>>) => Conn(fd).interpreter = NoInterpreter

\* a data line "Content-type: x-poserspace/text" was handled on a connection
\* bound to something else
C4_Witness ==
  \E fd \in Open : \E i \in 2..Len(tr[fd]) :
    /\ tr[fd][i].st = DATA
    /\ tr[fd][i].line = HdrText
    /\ tr[fd][i].interpreter # TextInterpreter
    /\ fatal = "none"

\* C5: on a connection in DATA without an interpreter a read with data is a
\* no-op: no dereference of the absent interpreter, no change of the
\* downstream state, the process and the connection stay alive.
C5_UnboundDataIsNoOp ==
  [][\A fd \in ConnFds :
       (Serves(fd) /\ Conn(fd).state = DATA /\ Conn(fd).interpreter = NoInterpreter
          /\ ReadLen(fd) > 0)
       => /\ "null interpreter" \notin ub'
          /\ lines' = lines
          /\ target' = target
          /\ fatal' = "none"
          /\ sock'[fd].open]_vars

\* a Content-type header line of a header block
IsContentType(e) ==
  e.st = HEADER /\ e.line # <<>> /\ HasColon(e.line) /\ HeaderName(e.line) = StrContentType

\* the interpreter a Content-type value names, NoInterpreter for any other
Named(value) ==
  IF value = StrText THEN TextInterpreter
  ELSE IF program = Coord /\ value = StrGeo THEN GeoInterpreter
  ELSE NoInterpreter

\* C6 as claimed: after a Content-type header the connection is bound to what
\* the value names, and to nothing when the value names nothing.
C6_OtherValueUnbinds ==
  \A fd \in ConnFds : \A i \in 1..Len(tr[fd]) :
    IsContentType(tr[fd][i]) =>
      tr[fd][i].interpreter = Named(HeaderValue(tr[fd][i].line))

\* C6 amended: a Content-type header whose value names an interpreter binds
\* it; with any other value, and for every header of another name, the
\* binding stays what it was before the line.
C6_OtherValueKeepsBinding ==
  \A fd \in ConnFds : \A i \in 2..Len(tr[fd]) :
    LET e == tr[fd][i] IN
    (e.st = HEADER /\ e.line # <<>> /\ HasColon(e.line)) =>
      IF IsContentType(e) /\ Named(HeaderValue(e.line)) # NoInterpreter
      THEN e.interpreter = Named(HeaderValue(e.line))
      ELSE e.interpreter = tr[fd][i - 1].interpreter

\* a Content-type header of an unknown value was handled on a connection an
\* earlier header had bound, and a binding header was handled
C6_Witness ==
  \E fd \in Open : \E i \in 2..Len(tr[fd]) :
    /\ IsContentType(tr[fd][i])
    /\ Named(HeaderValue(tr[fd][i].line)) = NoInterpreter
    /\ tr[fd][i - 1].interpreter = TextInterpreter
    /\ tr[fd][i].interpreter = TextInterpreter

\* C7: a read that returns zero or a negative value makes acceptInput remove
\* that handle, and no other, from the interest set, close it and reset its
\* slot; nothing is fed to the parser.
C7_NonPositiveReadCloses ==
  [][\A fd \in ConnFds :
       (Serves(fd) /\ ReadLen(fd) <= 0)
       => /\ interest' = interest \ {fd}
          /\ ~sock'[fd].open
          /\ connections'[fd + 1] = ConnectionState(-1)
          /\ tr' = tr /\ received' = received]_vars

\* C8: a read failure or peer close on a connection raises no fatal error
\* and the event loop goes on with the rest of the batch.
C8_ReadFailureIsLocal ==
  [][\A fd \in ConnFds :
       (Serves(fd) /\ ReadLen(fd) <= 0)
       => fatal' = "none" /\ pc' = "dispatch"]_vars

\* C9: the close of connection h (a read of zero or less on h) leaves every
\* other slot of the registry as it was and makes the slot of h the closed
\* placeholder.
C9_CloseTouchesOnlyOwnSlot ==
  [][\A fd \in ConnFds :
       (Serves(fd) /\ ReadLen(fd) <= 0)
       => /\ Len(connections') = Len(connections)
          /\ \A i \in 1..Len(connections) :
               i # fd + 1 => connections'[i] = connections[i]
          /\ connections'[fd + 1] = ConnectionState(-1)]_vars

\* a header line without a colon
BadHeader(e) == e.st = HEADER /\ e.line # <<>> /\ ~HasColon(e.line)

\* C10: a non-empty line without a colon handled in HEADER is fatal: it is
\* the last line its connection handles, the loop is left, and from then on
\* no line is handled, no tick is run and nothing downstream changes.
C10_BadHeaderIsFatal ==
  /\ [](\A fd \in ConnFds : \A i \in 1..Len(tr[fd]) :
          BadHeader(tr[fd][i]) =>
            i = Len(tr[fd]) /\ fatal = "invalid header" /\ pc = "exited")
  /\ [][fatal = "invalid header" =>
          UNCHANGED <<tr, received, frames, connections, lines, target>>]_vars

\* the bad header ended the process while another connection had unread
\* bytes and an event of the batch was still to be served
C10_Witness ==
  /\ fatal = "invalid header"
  /\ events # <<>>
  /\ \E fd \in Open : tr[fd] # <<>> /\ BadHeader(tr[fd][Len(tr[fd])])
  /\ \E fd \in Open : sock[fd].pending # <<>> /\ Head(events) = fd

\* a connection as the constructor leaves it, whatever its fd field
Fresh(c) == c.state = AWAITING_ACTION /\ c.buf = <<>> /\ c.interpreter = NoInterpreter

\* C11: the slot connections[h] of a handle h that acceptConnection has just
\* returned is a fresh connection (state ACTION, empty buffer, no
\* interpreter), also when h was used by an earlier connection and when h
\* is below the size of the registry; it stays so until bytes arrive.
C11_AcceptedSlotIsFresh ==
  [][\A h \in ConnFds :
       /\ (~sock[h].open /\ sock'[h].open) =>
            /\ h < Len(connections')
            /\ Fresh(connections'[h + 1])
       /\ (sock'[h].open /\ received'[h] = <<>>) => Fresh(connections'[h + 1])]_vars

\* handle h was returned twice: its first connection was closed, the second
\* accept found the registry already larger than h
C11_Witness ==
  \E h \in Open :
    /\ Len(returned) >= 2
    /\ returned[1] = h /\ returned[Len(returned)] = h
    /\ h + 1 < Len(connections)
    /\ received[h] = <<>>
    /\ fatal = "none"

\* C12: every handle acceptConnection has returned is an index of the
\* registry, and so is every connection handle of the batch being served.
C12_HandlesAreIndices ==
  /\ \A i \in 1..Len(returned) : returned[i] >= 0 /\ returned[i] < Len(connections)
  /\ \A i \in 1..Len(events) :
       events[i] # serverSocket => events[i] >= 0 /\ events[i] < Len(connections)

\* two handles were returned, the larger one first, and a batch with a
\* connection handle is being served
C12_Witness ==
  /\ Len(returned) >= 2
  /\ returned[2] < returned[1]
  /\ events # <<>> /\ Head(events) \in ConnFds
  /\ Head(events) = returned[2]

\* the last call of handleLine on connection fd
LastLine(fd) == tr[fd][Len(tr[fd])]

\* a data line with two or more fields handled on a Geo-bound connection
GeoRecord(e) == e.st = DATA /\ e.interpreter = GeoInterpreter /\ Len(Split(e.line)) >= 2

\* C13: in the coordinate display, a data line with two or more fields on a
\* Geo-bound connection sets the target to the numbers of its first and
\* second field (hundredths here), so after several such lines the target
\* is that of the last; the line 10.0<TAB>20.0 leaves it at (10.0, 20.0).
C13_GeoLineSetsTarget ==
  \A fd \in Open :
    (program = Coord /\ fatal = "none" /\ tr[fd] # <<>> /\ GeoRecord(LastLine(fd))) =>
      LET values == Split(LastLine(fd).line) IN
      /\ target = <<Atof(values[1]), Atof(values[2])>>
      /\ LastLine(fd).line = <<"1", "0", ".", "0", TAB, "2", "0", ".", "0">>
           => target = <<1000, 2000>>

\* two Geo records were handled, 10.0<TAB>20.0 and then 3<TAB>4.25<TAB>z, and
\* the target is that of the second
C13_Witness ==
  \E fd \in Open :
    /\ program = Coord /\ fatal = "none"
    /\ Len(tr[fd]) >= 5
    /\ GeoRecord(tr[fd][4]) /\ Atof(Split(tr[fd][4].line)[1]) = 1000
    /\ GeoRecord(tr[fd][5])
    /\ target = <<300, 425>>

\* the largest value maxsize returns for a number of items
MaxsizeBound(n) ==
  LET M == { maxsize(n, r) : r \in RandVals } IN
  CHOOSE m \in M : \A k \in M : k <= m

\* a record that the text display's TextInterpreter turns into an item
MakesItem(e) ==
  e.st = DATA /\ e.interpreter = TextInterpreter /\ Split(e.line)[1] # <<>>

\* C14: in the text display, on a Text-bound connection, a data line with an
\* empty first field adds no display item and one with a non-empty first
\* field appends exactly one item with that field as content; its size h,
\* chosen with n items present, has 4 <= h <= 31 and h <= maxsize-bound(n)
\* + 3, so fonts[h] is one of the loaded fonts 1..31.
C14_TextItemAndSize ==
  LET made == SelectSeq(tr[ParseFd], MakesItem)
      n0 == Len(lines) - Len(made)
  IN /\ n0 \in ItemCounts
     /\ \A i \in 1..n0 : lines[i] = OldItem
     /\ \A k \in 1..Len(made) :
          LET item == lines[n0 + k] IN
          /\ item.content = Split(made[k].line)[1]
          /\ 4 <= item.h /\ item.h <= 31
          /\ item.h <= MaxsizeBound(n0 + k - 1) + 3
          /\ 1 <= item.h /\ item.h < FontCount
     /\ "fonts index" \notin ub

\* all four records were handled with 200 or more items present: two items
\* were appended, one of the smallest and one of the largest size
C14_Witness ==
  /\ Len(tr[ParseFd]) = 7
  /\ Len(lines) >= 202
  /\ lines[Len(lines) - 1].content = <<"h", "i">>
  /\ lines[Len(lines)].content = <<"y", "o">>
  /\ lines[Len(lines) - 1].h = 4
  /\ lines[Len(lines)].h = 27

\* C15: with a clock that never goes back, at every readiness wait
\* nextFrameAt >= t, so nextFrameAt - t does not wrap, and the timeout of the
\* wait is floor((nextFrameAt - t) / 1000) ms: not more than the time left
\* until the next tick and not more than the tick period of 25 ms.
C15_TimeoutWithinTick ==
  pc = "wait" =>
    /\ nextFrameAt >= t
    /\ Timeouts = {(nextFrameAt - t) \div 1000}
    /\ \A timeout \in Timeouts :
         /\ 0 <= timeout
         /\ 1000 * timeout <= nextFrameAt - t
         /\ nextFrameAt - t < 1000 * (timeout + 1)
         /\ 1000 * timeout <= FRAMEDELAY
         /\ timeout <= 25

\* a wait after a tick with a time left that is no whole number of ms
C15_Witness ==
  /\ pc = "wait"
  /\ frames >= 1
  /\ (nextFrameAt - t) % 1000 # 0
  /\ nextFrameAt - t < FRAMEDELAY

\* ticks that fit into the observed time
TickNumbers == 0..(MaxPaceClock \div FRAMEDELAY)

\* C16: pacing is never starved: while there is time left for the clock to
\* pass the next tick deadline, the tick callback is invoked once more, or
\* the loop has ended (fatal error, quit); with an idle connection and with
\* a handle that is readable in every iteration.
C16_TickNotStarved ==
  \A n \in TickNumbers :
    [](frames = n /\ nextFrameAt + FRAMEDELAY + 1000 <= horizon
         => <>(frames > n \/ pc = "exited" \/ ~running))

\* the third tick was run and the loop is alive
C16_Witness ==
  /\ frames >= 3
  /\ pc = "wait" /\ running /\ fatal = "none"

FieldReads == {"data[1]", "values[1]"}

\* a data line without a tab: a record of one field
OneField(e) == e.st = DATA /\ Len(Split(e.line)) = 1

\* C18: a record with fewer fields than the handler reads is read past its
\* end.  In the coordinate display a data line without a tab (also the
\* empty line) on a Geo-bound connection makes GeoInterpreter::handleData
\* read data[1], and on a Geo- or Text-bound connection handleLine, when
\* reached, reads values[1], of a record of one field; records of two or
\* more fields are read inside.  The text display reads field 0 only,
\* which every line has.
C18_ShortRecordReadsPastEnd ==
  /\ \A fd \in ConnFds : \A i \in 1..Len(tr[fd]) :
       LET e == tr[fd][i] IN
       /\ Len(Split(e.line)) >= 1
       /\ (program = Coord /\ OneField(e) /\ e.interpreter = GeoInterpreter) =>
            /\ "data[1]" \in ub
            /\ (fatal = "none" \/ i < Len(tr[fd])) => "values[1]" \in ub
       /\ (program = Coord /\ OneField(e) /\ e.interpreter = TextInterpreter) =>
            "values[1]" \in ub
  /\ (ub \cap FieldReads # {}) =>
       /\ program = Coord
       /\ \E fd \in ConnFds : \E i \in 1..Len(tr[fd]) : OneField(tr[fd][i])

\* the coordinate display has handled the record 7 and the empty line on a
\* Geo-bound connection and has gone on
C18_Witness ==
  \E fd \in Open :
    /\ program = Coord /\ fatal = "none"
    /\ Len(tr[fd]) >= 5
    /\ OneField(tr[fd][4]) /\ tr[fd][4].line = <<"7">>
    /\ OneField(tr[fd][5]) /\ tr[fd][5].line = <<>>
    /\ tr[fd][5].interpreter = GeoInterpreter
    /\ FieldReads \subseteq ub

\* the bytes of a stream after its last LF
AfterLastLF(s) ==
  LET P == { i \in 1..Len(s) : s[i] = LF } IN
  IF P = {} THEN s
  ELSE SubSeq(s, (CHOOSE i \in P : \A j \in P : j <= i) + 1, Len(s))

\* the complete lines of a stream, as the protocol defines them: each ends
\* with LF, a CR before the LF is not part of the line
RECURSIVE CompleteLines(_)
CompleteLines(s) ==
  LET nl == Find(s, LF)
      raw == SubSeq(s, 1, nl - 1)
      line == IF raw # <<>> /\ raw[Len(raw)] = CR THEN SubSeq(raw, 1, Len(raw) - 1) ELSE raw
  IN IF nl > Len(s) THEN <<>>
     ELSE <<line>> \o CompleteLines(SubSeq(s, nl + 1, Len(s)))

\* C19: when handleInput has returned normally the receive buffer holds no
\* LF: every complete line received was passed to handleLine, in stream
\* order, and the buffer is what follows the last LF.
C19_NoLineLeftInBuffer ==
  \A fd \in Open :
    fatal = "none" =>
      /\ \A i \in 1..Len(Conn(fd).buf) : Conn(fd).buf[i] # LF
      /\ Conn(fd).buf = AfterLastLF(received[fd])
      /\ [i \in 1..Len(tr[fd]) |-> tr[fd][i].line] = CompleteLines(received[fd])

\* one read delivered two or more lines and left a partial line buffered
C19_Witness ==
  \E fd \in Open :
    /\ fatal = "none"
    /\ chunks[fd] = 1
    /\ Len(tr[fd]) >= 2
    /\ Conn(fd).buf # <<>>
    /\ sock[fd].pending # <<>>

\* C20: line extraction reads inside the receive buffer only: the check for
\* a CR before the LF looks at a byte at or after the start of the buffer,
\* also when the LF is the first byte of the buffer.
C20_ReadsInsideBuffer == "buf underrun" \notin ub

====
